---- MODULE Spec2Model ----
(***************************************************************************)
(* A model of the Sudoku grid printer and constraint checkers of TDA:      *)
(* print_board, check_row, check_col, check_box and print_box, together    *)
(* with the callers in the two main functions.                             *)
(*                                                                         *)
(* Standard output is the sequence cout of chunks, one per insertion       *)
(* (operator<<), each tagged with the thread that wrote it; endl is the    *)
(* chunk "\n".  A checker advances one loop iteration per step.  Every     *)
(* call has a frame (its parameters, loop indices and return value) and a  *)
(* seen set `num`, kept in the store `num` under the key SeenOf(t).        *)
(* frame.visits counts the loop-body executions of a call, one per cell    *)
(* read.  The row and column indices passed to the checkers are in 0..8;   *)
(* an index outside that range is an unchecked array access and is not     *)
(* modelled.                                                               *)
(***************************************************************************)
EXTENDS Integers, Sequences, FiniteSets

VARIABLES grid, frame, num, cout

vars == <<grid, frame, num, cout>>

(***************************************************************************)
(* Program constants and the bounds of the model.                          *)
(***************************************************************************)
N == 9

BoxDim == 3

\* Cell values are drawn from 0..MaxVal.
MaxVal == 9

\* The input grids are the base boards with one cell (r,c), r,c < EditSpan,
\* overwritten by any value.
EditSpan == 2

Idx == 0 .. (N - 1)

Values == 0 .. MaxVal

\* int board[9][9] = { ... }: a literal, rows and columns counted from 0.
Board(lit) == [r \in Idx |-> [c \in Idx |-> lit[r + 1][c + 1]]]

BoardA ==
  Board(<< <<0,0,0,0,0,0,0,0,1>>,
           <<0,0,0,0,0,0,0,1,0>>,
           <<0,0,0,0,0,0,1,0,0>>,
           <<0,0,0,0,0,1,0,0,0>>,
           <<0,0,0,0,1,0,0,0,0>>,
           <<0,0,0,1,0,0,0,0,0>>,
           <<0,0,1,0,0,0,0,0,0>>,
           <<0,1,0,0,0,0,0,0,0>>,
           <<1,0,0,0,0,0,0,0,0>> >>)

BoardB ==
  Board(<< <<1,2,3,4,5,6,7,8,1>>,
           <<2,0,0,0,0,0,0,1,0>>,
           <<3,0,0,0,0,0,1,0,0>>,
           <<4,0,0,0,0,1,0,0,0>>,
           <<5,0,0,0,1,0,0,0,0>>,
           <<6,0,0,1,0,0,0,0,0>>,
           <<7,0,1,0,0,0,0,0,0>>,
           <<8,1,0,0,0,0,0,0,0>>,
           <<1,0,0,0,0,0,0,0,0>> >>)

\* Two further inputs of the int x[9][9] parameter: the empty grid and a
\* completed Sudoku.
BoardZero == [r \in Idx |-> [c \in Idx |-> 0]]

BoardSolved ==
  Board(<< <<5,3,4,6,7,8,9,1,2>>,
           <<6,7,2,1,9,5,3,4,8>>,
           <<1,9,8,3,4,2,5,6,7>>,
           <<8,5,9,7,6,1,4,2,3>>,
           <<4,2,6,8,5,3,7,9,1>>,
           <<7,1,3,9,2,4,8,5,6>>,
           <<9,6,1,5,3,7,2,8,4>>,
           <<2,8,7,4,1,9,6,3,5>>,
           <<3,4,5,2,8,6,1,7,9>> >>)

Bases == {BoardA, BoardB, BoardZero, BoardSolved}

EditCells == {rc \in Idx \X Idx : rc[1] < EditSpan /\ rc[2] < EditSpan}

Grids ==
  {[b EXCEPT ![rc[1]][rc[2]] = v] : b \in Bases, rc \in EditCells, v \in Values}

(***************************************************************************)
(* Frames, the seen-set store and standard output.                         *)
(***************************************************************************)
\* A frame before any call.
IdleFrame ==
  [pc |-> "idle", fn |-> "none", arg |-> 0, rows |-> 0, cols |-> 0,
   boxNum |-> 0, ret |-> <<>>, visits |-> 0]

\* The frame at the entry of fn(x, arg).
Entry(fn, arg) ==
  [pc |-> fn, fn |-> fn, arg |-> arg, rows |-> 0, cols |-> 0,
   boxNum |-> 0, ret |-> <<>>, visits |-> 0]

Threads == DOMAIN frame

\* As SeenOf, had num been declared static: one set for all calls.
SeenOf_static(t) == CHOOSE k \in DOMAIN num : TRUE

\* set<int> num is a local of the call: each thread's call has its own.
SeenOf(t) == t

\* The chunks `out`, written by thread t.
Tag(t, out) == [i \in 1 .. Len(out) |-> [t |-> t, s |-> out[i]]]

\* The chunks thread t wrote, in order.
Own(t) ==
  LET mine == SelectSeq(cout, LAMBDA e : e.t = t)
  IN  [i \in 1 .. Len(mine) |-> mine[i].s]

\* operator<<(int): the decimal digits of a non-negative int.
DigitChar == <<"0", "1", "2", "3", "4", "5", "6", "7", "8", "9">>

RECURSIVE Decimal(_)
Decimal(v) ==
  IF v < 10 THEN DigitChar[v + 1]
  ELSE Decimal(v \div 10) \o DigitChar[(v % 10) + 1]

(***************************************************************************)
(* check_row                                                               *)
(***************************************************************************)
\* As check_row_body, without the return false of the duplicate branch.
check_row_body_noreturn(x, rowNum, cols, seen) ==
  IF x[rowNum][cols] = 0
  THEN [x |-> x, seen |-> seen, out |-> <<>>, ctl |-> "continue"]
  ELSE IF x[rowNum][cols] \in seen
       THEN [x |-> x, seen |-> seen, out |-> <<"dupe", "\n">>, ctl |-> "continue"]
       ELSE [x |-> x, seen |-> seen \cup {x[rowNum][cols]}, out |-> <<>>,
             ctl |-> "continue"]

\* As check_row_body, without the test for an empty cell.
check_row_body_nozero(x, rowNum, cols, seen) ==
  IF x[rowNum][cols] \in seen
  THEN [x |-> x, seen |-> seen, out |-> <<"dupe", "\n">>, ctl |-> "return"]
  ELSE [x |-> x, seen |-> seen \cup {x[rowNum][cols]}, out |-> <<>>,
        ctl |-> "continue"]

\* As check_row_body, with if (x[rowNum][cols] = 0): the cell is set to 0 and
\* the test is false.
check_row_body_assign(x, rowNum, cols, seen) ==
  LET y == [x EXCEPT ![rowNum][cols] = 0]
  IN  IF y[rowNum][cols] \in seen
      THEN [x |-> y, seen |-> seen, out |-> <<"dupe", "\n">>, ctl |-> "return"]
      ELSE [x |-> y, seen |-> seen \cup {y[rowNum][cols]}, out |-> <<>>,
            ctl |-> "continue"]

\* One iteration of the loop of check_row, at column cols.
check_row_body(x, rowNum, cols, seen) ==
  IF x[rowNum][cols] = 0
  THEN [x |-> x, seen |-> seen, out |-> <<>>, ctl |-> "continue"]
  ELSE IF x[rowNum][cols] \in seen
       THEN [x |-> x, seen |-> seen, out |-> <<"dupe", "\n">>, ctl |-> "return"]
       ELSE [x |-> x, seen |-> seen \cup {x[rowNum][cols]}, out |-> <<>>,
             ctl |-> "continue"]

CallCheckRow(t, rowNum) ==
  /\ frame[t].pc \in {"idle", "done"}
  /\ frame' = [frame EXCEPT ![t] = Entry("check_row", rowNum)]
  /\ num' = [num EXCEPT ![SeenOf(t)] = {}]
  /\ cout' = <<>>
  /\ UNCHANGED grid

CheckRowStep(t) ==
  /\ frame[t].pc = "check_row"
  /\ frame[t].cols < N
  /\ LET f == frame[t]
         r == check_row_body(grid, f.arg, f.cols, num[SeenOf(t)])
     IN  /\ grid' = r.x
         /\ num' = [num EXCEPT ![SeenOf(t)] = r.seen]
         /\ cout' = cout \o Tag(t, r.out)
         /\ frame' = [frame EXCEPT ![t] =
                        IF r.ctl = "return"
                        THEN [f EXCEPT !.pc = "done", !.ret = <<FALSE>>,
                                       !.visits = @ + 1]
                        ELSE [f EXCEPT !.cols = @ + 1, !.visits = @ + 1]]

CheckRowReturn(t) ==
  /\ frame[t].pc = "check_row"
  /\ frame[t].cols >= N
  /\ frame' = [frame EXCEPT ![t] = [@ EXCEPT !.pc = "done", !.ret = <<TRUE>>]]
  /\ UNCHANGED <<grid, num, cout>>

(***************************************************************************)
(* check_col                                                               *)
(***************************************************************************)
\* As check_col_body, with the two subscripts exchanged.
check_col_body_transposed(x, colNum, rows, seen) ==
  IF x[colNum][rows] = 0
  THEN [x |-> x, seen |-> seen, out |-> <<>>, ctl |-> "continue"]
  ELSE IF x[colNum][rows] \in seen
       THEN [x |-> x, seen |-> seen, out |-> <<"dupe", "\n">>, ctl |-> "return"]
       ELSE [x |-> x, seen |-> seen \cup {x[colNum][rows]}, out |-> <<>>,
             ctl |-> "continue"]

\* One iteration of the loop of check_col, at row rows.
check_col_body(x, colNum, rows, seen) ==
  IF x[rows][colNum] = 0
  THEN [x |-> x, seen |-> seen, out |-> <<>>, ctl |-> "continue"]
  ELSE IF x[rows][colNum] \in seen
       THEN [x |-> x, seen |-> seen, out |-> <<"dupe", "\n">>, ctl |-> "return"]
       ELSE [x |-> x, seen |-> seen \cup {x[rows][colNum]}, out |-> <<>>,
             ctl |-> "continue"]

CallCheckCol(t, colNum) ==
  /\ frame[t].pc \in {"idle", "done"}
  /\ frame' = [frame EXCEPT ![t] = Entry("check_col", colNum)]
  /\ num' = [num EXCEPT ![SeenOf(t)] = {}]
  /\ cout' = <<>>
  /\ UNCHANGED grid

CheckColStep(t) ==
  /\ frame[t].pc = "check_col"
  /\ frame[t].rows < N
  /\ LET f == frame[t]
         r == check_col_body(grid, f.arg, f.rows, num[SeenOf(t)])
     IN  /\ grid' = r.x
         /\ num' = [num EXCEPT ![SeenOf(t)] = r.seen]
         /\ cout' = cout \o Tag(t, r.out)
         /\ frame' = [frame EXCEPT ![t] =
                        IF r.ctl = "return"
                        THEN [f EXCEPT !.pc = "done", !.ret = <<FALSE>>,
                                       !.visits = @ + 1]
                        ELSE [f EXCEPT !.rows = @ + 1, !.visits = @ + 1]]

CheckColReturn(t) ==
  /\ frame[t].pc = "check_col"
  /\ frame[t].rows >= N
  /\ frame' = [frame EXCEPT ![t] = [@ EXCEPT !.pc = "done", !.ret = <<TRUE>>]]
  /\ UNCHANGED <<grid, num, cout>>

(***************************************************************************)
(* check_box                                                               *)
(***************************************************************************)
\* As BoxIndex, without the multiplication.
BoxIndex_nomul(rows, cols) == (rows \div BoxDim) + (cols \div BoxDim)

\* rows/3 * 3 + cols/3, in int arithmetic on non-negative operands.
BoxIndex(rows, cols) == (rows \div BoxDim) * BoxDim + (cols \div BoxDim)

\* As AbortOnDuplicate, with the return false of check_box in force.
AbortOnDuplicate_on == TRUE

\* //return false: the statement is a comment.
AbortOnDuplicate == FALSE

\* One iteration of the inner loop of check_box, at cell (rows, cols) of the
\* pass for box boxNum.  The return false of the duplicate branch is
\* commented out in the source: the scan continues.
check_box_body(x, boxNum, rows, cols, seen) ==
  IF x[rows][cols] = 0
  THEN [x |-> x, seen |-> seen, out |-> <<>>, ctl |-> "continue"]
  ELSE IF BoxIndex(rows, cols) = boxNum
       THEN IF x[rows][cols] \in seen
            THEN [x |-> x, seen |-> seen,
                  out |-> <<"dupe in box-", Decimal(boxNum), "\n",
                            "\tdupe for number: ", Decimal(x[rows][cols]), "\n">>,
                  ctl |-> IF AbortOnDuplicate THEN "return" ELSE "continue"]
            ELSE [x |-> x, seen |-> seen \cup {x[rows][cols]}, out |-> <<>>,
                  ctl |-> "continue"]
       ELSE [x |-> x, seen |-> seen, out |-> <<>>, ctl |-> "continue"]

\* As check_box_pass_end, without num.clear().
check_box_pass_end_noclear(boxNum, seen) == [seen |-> seen, boxNum |-> boxNum + 1]

\* As check_box_pass_end, with boxNum += 3.
check_box_pass_end_stride(boxNum, seen) == [seen |-> {}, boxNum |-> boxNum + BoxDim]

\* The end of the while body: num.clear(); boxNum++.
check_box_pass_end(boxNum, seen) == [seen |-> {}, boxNum |-> boxNum + 1]

CallCheckBox(t) ==
  /\ frame[t].pc \in {"idle", "done"}
  /\ frame' = [frame EXCEPT ![t] = Entry("check_box", 0)]
  /\ num' = [num EXCEPT ![SeenOf(t)] = {}]
  /\ cout' = <<>>
  /\ UNCHANGED grid

\* The inner loop body at (rows, cols), then cols++ and, at the end of the
\* row, rows++ with cols back at 0.
CheckBoxStep(t) ==
  /\ frame[t].pc = "check_box"
  /\ frame[t].boxNum # N
  /\ frame[t].rows < N
  /\ frame[t].cols < N
  /\ LET f == frame[t]
         r == check_box_body(grid, f.boxNum, f.rows, f.cols, num[SeenOf(t)])
     IN  /\ grid' = r.x
         /\ num' = [num EXCEPT ![SeenOf(t)] = r.seen]
         /\ cout' = cout \o Tag(t, r.out)
         /\ frame' = [frame EXCEPT ![t] =
                        IF r.ctl = "return"
                        THEN [f EXCEPT !.pc = "done", !.ret = <<FALSE>>,
                                       !.visits = @ + 1]
                        ELSE IF f.cols + 1 < N
                             THEN [f EXCEPT !.cols = @ + 1, !.visits = @ + 1]
                             ELSE [f EXCEPT !.rows = @ + 1, !.cols = 0,
                                            !.visits = @ + 1]]

\* Both for loops have run out: clear the set, go to the next box.
CheckBoxPassEnd(t) ==
  /\ frame[t].pc = "check_box"
  /\ frame[t].boxNum # N
  /\ frame[t].rows >= N
  /\ LET f == frame[t]
         e == check_box_pass_end(f.boxNum, num[SeenOf(t)])
     IN  /\ num' = [num EXCEPT ![SeenOf(t)] = e.seen]
         /\ frame' = [frame EXCEPT ![t] =
                        [f EXCEPT !.boxNum = e.boxNum, !.rows = 0, !.cols = 0]]
  /\ UNCHANGED <<grid, cout>>

\* while (boxNum != 9) is over: return true.
CheckBoxReturn(t) ==
  /\ frame[t].pc = "check_box"
  /\ frame[t].boxNum = N
  /\ frame' = [frame EXCEPT ![t] = [@ EXCEPT !.pc = "done", !.ret = <<TRUE>>]]
  /\ UNCHANGED <<grid, num, cout>>

(***************************************************************************)
(* print_board and print_box write their whole output in one step.         *)
(***************************************************************************)
Dashes == "-------------------------"

\* The inner loop of print_board from column cols on.
RECURSIVE print_board_cols(_, _, _)
print_board_cols(x, rows, cols) ==
  IF cols < N
  THEN (IF cols % BoxDim = 0 THEN <<"| ">> ELSE <<>>)
       \o <<Decimal(x[rows][cols]), " ">>
       \o print_board_cols(x, rows, cols + 1)
  ELSE <<>>

\* The outer loop of print_board from row rows on.
RECURSIVE print_board_rows(_, _)
print_board_rows(x, rows) ==
  IF rows < N
  THEN (IF rows % BoxDim = 0 THEN <<Dashes, "\n">> ELSE <<>>)
       \o print_board_cols(x, rows, 0)
       \o <<"|", "\n">>
       \o print_board_rows(x, rows + 1)
  ELSE <<>>

\* As print_board, without the separator after the last row.
print_board_noclose(x) == print_board_rows(x, 0)

print_board(x) == print_board_rows(x, 0) \o <<Dashes, "\n">>

\* The inner loop of print_box, in row i from column j on.
RECURSIVE print_box_cols(_, _, _, _)
print_box_cols(x, boxNum, i, j) ==
  IF j < N
  THEN (IF BoxIndex(i, j) = boxNum THEN <<Decimal(x[i][j])>> ELSE <<>>)
       \o print_box_cols(x, boxNum, i, j + 1)
  ELSE <<>>

\* The outer loop of print_box from row i on.
RECURSIVE print_box_rows(_, _, _)
print_box_rows(x, boxNum, i) ==
  IF i < N
  THEN print_box_cols(x, boxNum, i, 0) \o print_box_rows(x, boxNum, i + 1)
  ELSE <<>>

print_box(x, boxNum) == print_box_rows(x, boxNum, 0)

PrintBoard(t) ==
  /\ frame[t].pc \in {"idle", "done"}
  /\ frame' = [frame EXCEPT ![t] = [Entry("print_board", 0) EXCEPT !.pc = "done"]]
  /\ cout' = Tag(t, print_board(grid))
  /\ UNCHANGED <<grid, num>>

PrintBox(t, boxNum) ==
  /\ frame[t].pc \in {"idle", "done"}
  /\ frame' = [frame EXCEPT ![t] = [Entry("print_box", boxNum) EXCEPT !.pc = "done"]]
  /\ cout' = Tag(t, print_box(grid, boxNum))
  /\ UNCHANGED <<grid, num>>

(***************************************************************************)
(* The checkers as functions of the grid: a call run from entry to return  *)
(* on its own, with a seen set no one else touches.                        *)
(***************************************************************************)
RECURSIVE check_row_from(_, _, _, _, _)
check_row_from(x, rowNum, cols, seen, out) ==
  IF cols < N
  THEN LET r == check_row_body(x, rowNum, cols, seen)
       IN  IF r.ctl = "return"
           THEN [ret |-> FALSE, out |-> out \o r.out]
           ELSE check_row_from(r.x, rowNum, cols + 1, r.seen, out \o r.out)
  ELSE [ret |-> TRUE, out |-> out]

check_row(x, rowNum) == check_row_from(x, rowNum, 0, {}, <<>>)

RECURSIVE check_col_from(_, _, _, _, _)
check_col_from(x, colNum, rows, seen, out) ==
  IF rows < N
  THEN LET r == check_col_body(x, colNum, rows, seen)
       IN  IF r.ctl = "return"
           THEN [ret |-> FALSE, out |-> out \o r.out]
           ELSE check_col_from(r.x, colNum, rows + 1, r.seen, out \o r.out)
  ELSE [ret |-> TRUE, out |-> out]

check_col(x, colNum) == check_col_from(x, colNum, 0, {}, <<>>)

\* The inner for loop of check_box, in row rows from column cols on.
RECURSIVE check_box_cols(_, _, _, _, _, _)
check_box_cols(x, boxNum, rows, cols, seen, out) ==
  IF cols < N
  THEN LET r == check_box_body(x, boxNum, rows, cols, seen)
       IN  IF r.ctl = "return"
           THEN [x |-> r.x, seen |-> r.seen, out |-> out \o r.out, ctl |-> "return"]
           ELSE check_box_cols(r.x, boxNum, rows, cols + 1, r.seen, out \o r.out)
  ELSE [x |-> x, seen |-> seen, out |-> out, ctl |-> "continue"]

\* The outer for loop of check_box from row rows on.
RECURSIVE check_box_rows(_, _, _, _, _)
check_box_rows(x, boxNum, rows, seen, out) ==
  IF rows < N
  THEN LET p == check_box_cols(x, boxNum, rows, 0, seen, out)
       IN  IF p.ctl = "return"
           THEN p
           ELSE check_box_rows(p.x, boxNum, rows + 1, p.seen, p.out)
  ELSE [x |-> x, seen |-> seen, out |-> out, ctl |-> "continue"]

\* The while loop of check_box from box boxNum on.
RECURSIVE check_box_from(_, _, _, _)
check_box_from(x, boxNum, seen, out) ==
  IF boxNum # N
  THEN LET p == check_box_rows(x, boxNum, 0, seen, out)
           e == check_box_pass_end(boxNum, p.seen)
       IN  IF p.ctl = "return"
           THEN [ret |-> FALSE, out |-> p.out]
           ELSE check_box_from(p.x, e.boxNum, e.seen, p.out)
  ELSE [ret |-> TRUE, out |-> out]

check_box(x) == check_box_from(x, 0, {}, <<>>)

(***************************************************************************)
(* The sequential program: one thread calls the operations one after the   *)
(* other.  cout holds what was written since the latest call began.        *)
(***************************************************************************)
MainThreads == {"main"}

Init ==
  /\ grid \in Grids
  /\ frame = [t \in MainThreads |-> IdleFrame]
  /\ num = [t \in MainThreads |-> {}]
  /\ cout = <<>>

Next ==
  \/ \E t \in MainThreads, i \in Idx : CallCheckRow(t, i)
  \/ \E t \in MainThreads : CheckRowStep(t)
  \/ \E t \in MainThreads : CheckRowReturn(t)
  \/ \E t \in MainThreads, i \in Idx : CallCheckCol(t, i)
  \/ \E t \in MainThreads : CheckColStep(t)
  \/ \E t \in MainThreads : CheckColReturn(t)
  \/ \E t \in MainThreads : CallCheckBox(t)
  \/ \E t \in MainThreads : CheckBoxStep(t)
  \/ \E t \in MainThreads : CheckBoxPassEnd(t)
  \/ \E t \in MainThreads : CheckBoxReturn(t)
  \/ \E t \in MainThreads : PrintBoard(t)
  \/ \E t \in MainThreads, b \in Idx : PrintBox(t, b)

Spec == Init /\ [][Next]_vars

(***************************************************************************)
(* Three threads on one grid: the calls of main, check_row(board, 0),      *)
(* check_col(board, 0) and check_box(board), each in a thread of its own   *)
(* and stepping in any order.                                              *)
(***************************************************************************)
ConcThreads == {"t_row", "t_col", "t_box"}

ConcGrids == {BoardA, BoardB, BoardSolved}

InitConc ==
  /\ grid \in ConcGrids
  /\ frame = [t \in ConcThreads |->
                CASE t = "t_row" -> Entry("check_row", 0)
                  [] t = "t_col" -> Entry("check_col", 0)
                  [] OTHER -> Entry("check_box", 0)]
  /\ num = [t \in ConcThreads |-> {}]
  /\ cout = <<>>

NextConc ==
  \/ \E t \in ConcThreads : CheckRowStep(t)
  \/ \E t \in ConcThreads : CheckRowReturn(t)
  \/ \E t \in ConcThreads : CheckColStep(t)
  \/ \E t \in ConcThreads : CheckColReturn(t)
  \/ \E t \in ConcThreads : CheckBoxStep(t)
  \/ \E t \in ConcThreads : CheckBoxPassEnd(t)
  \/ \E t \in ConcThreads : CheckBoxReturn(t)

ConcSpec == InitConc /\ [][NextConc]_vars

(***************************************************************************)
(* Units, lines and blocks, as the properties below speak of them.         *)
(***************************************************************************)
\* The cells of row i and of column i, in scan order.
RowUnit(x, i) == [k \in Idx |-> x[i][k]]

ColUnit(x, i) == [k \in Idx |-> x[k][i]]

\* No non-zero value occurs in two cells of the unit.
NoRepeat(u) == \A a, b \in Idx : (a # b /\ u[a] # 0) => u[a] # u[b]

\* Cell k repeats the non-zero value of an earlier cell of the unit.
Repeats(u, k) == u[k] # 0 /\ \E j \in Idx : j < k /\ u[j] = u[k]

\* The first such cell.
FirstDup(u) == CHOOSE k \in Idx : Repeats(u, k) /\ \A j \in Idx : j < k => ~Repeats(u, j)

\* The unit a check_row or check_col frame scans, and the index it is at.
UnitOf(f) == IF f.fn = "check_row" THEN RowUnit(grid, f.arg) ELSE ColUnit(grid, f.arg)

IndexOf(f) == IF f.fn = "check_row" THEN f.cols ELSE f.rows

\* The lines of an output: the chunks between one "\n" and the next.
Lines(s) ==
  LET nl == {i \in 1 .. Len(s) : s[i] = "\n"}
      End(k) == CHOOSE i \in nl : Cardinality({j \in nl : j <= i}) = k
      Start(k) == IF k = 1 THEN 1 ELSE End(k - 1) + 1
  IN  [k \in 1 .. Cardinality(nl) |-> SubSeq(s, Start(k), End(k) - 1)]

\* The output ends at the end of a line.
Terminated(s) == s = <<>> \/ s[Len(s)] = "\n"

\* The cells of the 3x3 block number b, blocks counted row by row.
BlockCells(b) ==
  {rc \in Idx \X Idx : /\ rc[1] \in (3 * (b \div 3)) .. (3 * (b \div 3) + 2)
                       /\ rc[2] \in (3 * (b % 3)) .. (3 * (b % 3) + 2)}

\* C1: a finished check_row(grid, i) has returned true exactly when no
\* non-zero value occurs twice in row i, and false otherwise; a finished
\* check_col(grid, i) likewise for column i.
C1_RowColResult ==
  \A t \in Threads :
    LET f == frame[t]
    IN  (f.pc = "done" /\ f.fn \in {"check_row", "check_col"})
          => f.ret = <<NoRepeat(UnitOf(f))>>

\* A column check that returned false on a column holding a repeated value
\* and some empty cells.
C1_Witness ==
  \E t \in Threads :
    /\ frame[t].pc = "done"
    /\ frame[t].fn = "check_col"
    /\ frame[t].ret = <<FALSE>>
    /\ ~NoRepeat(ColUnit(grid, frame[t].arg))
    /\ \E k \in Idx : grid[k][frame[t].arg] = 0

\* C2: a finished check_box has returned true, whatever the grid, and has
\* gone through all nine passes: a duplicate did not end the scan.
C2_BoxAlwaysTrue ==
  \A t \in Threads :
    LET f == frame[t]
    IN  (f.pc = "done" /\ f.fn = "check_box")
          => (f.ret = <<TRUE>> /\ f.boxNum = N)

\* check_box has returned on a grid with a box holding one value twice,
\* after reporting it.
C2_Witness ==
  \E t \in Threads :
    /\ frame[t].pc = "done"
    /\ frame[t].fn = "check_box"
    /\ frame[t].ret = <<TRUE>>
    /\ Own(t) # <<>>
    /\ \E b \in Idx : \E p, q \in BlockCells(b) :
         p # q /\ grid[p[1]][p[2]] # 0 /\ grid[p[1]][p[2]] = grid[q[1]][q[2]]

\* The diagnostics of a check_box output: each is two lines, the first
\* naming the box and the second the value.
IsBoxDiag(L, k, b, v) ==
  /\ L[2 * k - 1] = <<"dupe in box-", Decimal(b)>>
  /\ L[2 * k] = <<"\tdupe for number: ", Decimal(v)>>

\* C3: when check_box has finished, its output is a sequence of two-line
\* diagnostics; for every box b and value v the diagnostics naming b and v
\* are one fewer than the cells of b that hold v (none if no cell does), so
\* those naming b number (non-zero cells of b) - (distinct non-zero values of
\* b), a box without repeats has none, and a value seen in another box counts
\* for nothing.
C3_BoxDiagnostics ==
  \A t \in Threads :
    LET f == frame[t]
        L == Lines(Own(t))
        D == 1 .. (Len(L) \div 2)
        Holding(b, v) == {rc \in BlockCells(b) : grid[rc[1]][rc[2]] = v}
        NonZero(b) == {rc \in BlockCells(b) : grid[rc[1]][rc[2]] # 0}
        Distinct(b) == {grid[rc[1]][rc[2]] : rc \in NonZero(b)}
    IN  (f.pc = "done" /\ f.fn = "check_box")
          => /\ Terminated(Own(t))
             /\ Len(L) % 2 = 0
             /\ \A k \in D : \E b \in Idx, v \in 1 .. MaxVal : IsBoxDiag(L, k, b, v)
             /\ \A b \in Idx :
                  /\ Cardinality({k \in D : L[2 * k - 1] = <<"dupe in box-", Decimal(b)>>})
                       = Cardinality(NonZero(b)) - Cardinality(Distinct(b))
                  /\ \A v \in 1 .. MaxVal :
                       Cardinality({k \in D : IsBoxDiag(L, k, b, v)})
                         = IF Holding(b, v) = {} THEN 0
                           ELSE Cardinality(Holding(b, v)) - 1

\* check_box has finished on a grid where one box got two diagnostics and a
\* later box, holding a value of an earlier box once, got none.
C3_Witness ==
  \E t \in Threads :
    LET L == Lines(Own(t))
        D == 1 .. (Len(L) \div 2)
        Named(b) == {k \in D : L[2 * k - 1] = <<"dupe in box-", Decimal(b)>>}
        ValuesIn(b) == {grid[rc[1]][rc[2]] : rc \in BlockCells(b)} \ {0}
    IN  /\ frame[t].pc = "done"
        /\ frame[t].fn = "check_box"
        /\ \E b \in Idx : Cardinality(Named(b)) >= 2
        /\ \E b, c \in Idx :
             b < c /\ Named(c) = {} /\ ValuesIn(b) \cap ValuesIn(c) # {}

\* C4: a check_row or check_col that is still scanning has written nothing
\* and has read exactly the cells before its index; one that returned true
\* has written nothing; one that returned false has written the one line
\* "dupe", stands at the first cell that repeats an earlier non-zero value,
\* and has read that cell and the ones before it, and no later one.
C4_OneDiagnosticAndStop ==
  \A t \in Threads :
    LET f == frame[t]
        u == UnitOf(f)
    IN  f.fn \in {"check_row", "check_col"}
          => IF f.pc # "done"
             THEN Own(t) = <<>> /\ f.visits = IndexOf(f)
             ELSE IF f.ret = <<TRUE>>
                  THEN Own(t) = <<>>
                  ELSE /\ Terminated(Own(t))
                       /\ Lines(Own(t)) = << <<"dupe">> >>
                       /\ IndexOf(f) = FirstDup(u)
                       /\ f.visits = FirstDup(u) + 1

\* A row check that stopped at its first repeat with another repeat further
\* right in the row.
C4_Witness ==
  \E t \in Threads :
    LET f == frame[t]
        u == RowUnit(grid, f.arg)
    IN  /\ f.pc = "done"
        /\ f.fn = "check_row"
        /\ f.ret = <<FALSE>>
        /\ \E k \in Idx : k > f.cols /\ Repeats(u, k)

\* The cell a scanning checker is about to read.
AtCell(f) ==
  CASE f.fn = "check_row" -> <<f.arg, f.cols>>
    [] f.fn = "check_col" -> <<f.rows, f.arg>>
    [] OTHER -> <<f.rows, f.cols>>

Scanning(f) ==
  /\ f.pc \in {"check_row", "check_col", "check_box"}
  /\ f.rows < N
  /\ f.cols < N
  /\ f.boxNum # N

\* No non-zero value occurs in two cells of any one box.
NoBoxRepeat ==
  \A b \in Idx : \A p, q \in BlockCells(b) :
    (p # q /\ grid[p[1]][p[2]] # 0) => grid[p[1]][p[2]] # grid[q[1]][q[2]]

\* C5: 0 is never in a seen set; the step of a checker at a cell holding 0
\* writes nothing, does not return and leaves the seen sets as they are; and
\* a check of a unit whose non-zero values are distinct, however many cells
\* are empty, has returned true and written nothing.
C5_ZeroNeverCounts ==
  /\ [](\A k \in DOMAIN num : 0 \notin num[k])
  /\ [][\A t \in Threads :
          LET f == frame[t]
          IN  (Scanning(f) /\ grid[AtCell(f)[1]][AtCell(f)[2]] = 0
                 /\ frame'[t] # f)
                => (cout' = cout /\ num' = num /\ frame'[t].pc = f.pc)]_vars
  /\ [](\A t \in Threads :
          LET f == frame[t]
          IN  /\ (f.pc = "done" /\ f.fn \in {"check_row", "check_col"}
                    /\ NoRepeat(UnitOf(f)))
                  => (f.ret = <<TRUE>> /\ Own(t) = <<>>)
              /\ (f.pc = "done" /\ f.fn = "check_box" /\ NoBoxRepeat)
                  => (f.ret = <<TRUE>> /\ Own(t) = <<>>))

\* A row check that returned true on a row with two or more empty cells and
\* two or more filled ones.
C5_Witness ==
  \E t \in Threads :
    LET f == frame[t]
        u == RowUnit(grid, f.arg)
    IN  /\ f.pc = "done"
        /\ f.fn = "check_row"
        /\ f.ret = <<TRUE>>
        /\ Own(t) = <<>>
        /\ Cardinality({k \in Idx : u[k] = 0}) >= 2
        /\ Cardinality({k \in Idx : u[k] # 0}) >= 2

\* C6: (r/3)*3 + (c/3) takes every cell to a box number in 0..8, the cells
\* of box b are the nine cells of the 3x3 block b, and print_box(grid, b)
\* writes the values of exactly those cells, row by row.
C6_BoxPartition ==
  \A t \in Threads :
    LET f == frame[t]
        r0 == 3 * (f.arg \div 3)
        c0 == 3 * (f.arg % 3)
    IN  (f.pc = "done" /\ f.fn = "print_box")
          => /\ \A r, c \in Idx : BoxIndex(r, c) \in Idx
             /\ \A b \in Idx :
                  LET cells == {rc \in Idx \X Idx : BoxIndex(rc[1], rc[2]) = b}
                  IN  cells = BlockCells(b) /\ Cardinality(cells) = 9
             /\ Own(t) = [k \in 1 .. 9 |->
                            Decimal(grid[r0 + ((k - 1) \div 3)][c0 + ((k - 1) % 3)])]

\* print_box has written a box with a filled cell that is not box 0.
C6_Witness ==
  \E t \in Threads :
    /\ frame[t].pc = "done"
    /\ frame[t].fn = "print_box"
    /\ frame[t].arg = 5
    /\ \E rc \in BlockCells(5) : grid[rc[1]][rc[2]] # 0

\* A chunk holding a vertical bar.
IsBar(s) == s \in {"| ", "|"}

\* A line without its blanks.
Strip(line) == SelectSeq(line, LAMBDA s : s # " ")

\* C7: print_board writes exactly 13 lines: lines 1, 5, 9 and 13 are the
\* separator of dashes (before rows 0, 3, 6 and after row 8) and the other
\* nine are the rows 0..8 in order, each with exactly four bars, one before
\* the cells of columns 0, 3 and 6 and one at the end, and with the nine
\* values of the row in column order.
C7_BoardLayout ==
  \A t \in Threads :
    LET f == frame[t]
        L == Lines(Own(t))
    IN  (f.pc = "done" /\ f.fn = "print_board")
          => /\ Terminated(Own(t))
             /\ Len(L) = 13
             /\ \A i \in 1 .. 13 :
                  IF i % 4 = 1
                  THEN L[i] = <<Dashes>>
                  ELSE LET row == i - 2 - ((i - 1) \div 4)
                           S == Strip(L[i])
                       IN  /\ Len(SelectSeq(L[i], IsBar)) = 4
                           /\ Len(S) = 13
                           /\ \A j \in 1 .. 13 :
                                IF j % 4 = 1
                                THEN IsBar(S[j])
                                ELSE S[j] = Decimal(grid[row][j - 2 - ((j - 1) \div 4)])

\* print_board has written a grid with filled and empty cells.
C7_Witness ==
  \E t \in Threads :
    /\ frame[t].pc = "done"
    /\ frame[t].fn = "print_board"
    /\ Len(Lines(Own(t))) = 13
    /\ \E r, c \in Idx : grid[r][c] # 0
    /\ \E r, c \in Idx : grid[r][c] = 0

\* C8: no step of any operation changes a cell of the grid, and a step
\* changes no seen set but that of the call that takes it.
C8_GridNeverMutated ==
  [][/\ grid' = grid
     /\ \A k \in DOMAIN num :
          num'[k] # num[k]
            => \E t \in Threads :
                 /\ SeenOf(t) = k
                 /\ frame'[t] # frame[t]
                 /\ frame'[t].fn \in {"check_row", "check_col", "check_box"}]_vars

\* check_row has finished after reading all nine cells of its row and
\* putting values into its seen set.
C8_Witness ==
  \E t \in Threads :
    /\ frame[t].pc = "done"
    /\ frame[t].fn = "check_row"
    /\ frame[t].visits = N
    /\ num[SeenOf(t)] # {}

\* C9: in the three-thread program a finished call has returned what the
\* same call returns when run alone on the grid, and the chunks it wrote are,
\* in order, those it writes when run alone.
C9_SameAsAlone ==
  \A t \in Threads :
    LET f == frame[t]
        alone == CASE f.fn = "check_row" -> check_row(grid, f.arg)
                   [] f.fn = "check_col" -> check_col(grid, f.arg)
                   [] OTHER -> check_box(grid)
    IN  f.pc = "done" => (f.ret = <<alone.ret>> /\ Own(t) = alone.out)

\* All three calls have finished and their diagnostics are interleaved on
\* standard output.
C9_Witness ==
  /\ \A t \in Threads : frame[t].pc = "done"
  /\ Cardinality(Threads) = 3
  /\ \E i, j, k \in 1 .. Len(cout) :
       /\ i < j
       /\ j < k
       /\ cout[i].t = "t_box"
       /\ cout[j].t = "t_row"
       /\ cout[k].t = "t_box"

\* C10 as stated: check_box reads at most 81 cells in a call, check_row and
\* check_col at most 9.
C10_AsStated ==
  \A t \in Threads :
    LET f == frame[t]
    IN  /\ f.fn = "check_box" => f.visits <= 81
        /\ f.fn \in {"check_row", "check_col"} => f.visits <= 9

\* C10, amended: check_box reads at most 729 cells in a call, 81 in each of
\* its nine passes, and exactly 729 by the time it returns; check_row and
\* check_col read at most 9.
C10_VisitBound ==
  \A t \in Threads :
    LET f == frame[t]
    IN  /\ f.fn = "check_box"
          => /\ f.visits <= 729
             /\ f.pc = "check_box" => f.visits = 81 * f.boxNum + 9 * f.rows + f.cols
             /\ f.pc = "done" => f.visits = 729
        /\ f.fn \in {"check_row", "check_col"} => f.visits <= 9

\* check_box has returned after 729 reads.
C10_Witness ==
  \E t \in Threads :
    /\ frame[t].pc = "done"
    /\ frame[t].fn = "check_box"
    /\ frame[t].visits = 729

====
